---- MODULE Spec2Model ----
(***************************************************************************)
(* dashboard.py: a Streamlit script.  Every user interaction re-runs the   *)
(* whole script from line 1; load_data is wrapped in st.cache_data.        *)
(*                                                                         *)
(* Encoding of values                                                      *)
(*   - a parseable timestamp string of the CSV is the pair <<day, tick>>,  *)
(*     an unparseable one is <<>>;                                         *)
(*   - a pandas Timestamp is day * TicksPerDay + tick, a datetime.date is  *)
(*     the day number, a month label "YYYY-MM" is the month number;        *)
(*   - category, city and state names are positive integers ordered as     *)
(*     the names sort; quantities, revenues and delivery days are Nat;     *)
(*   - a Series is a sequence of [key, val] records in index order.        *)
(***************************************************************************)
EXTENDS Integers, Sequences, FiniteSets, TLC

VARIABLES
    remote,            \* the CSV behind the URL of line 15
    cache,             \* the st.cache_data entry of load_data()
    fetches,           \* number of pd.read_csv calls so far
    calls,             \* number of load_data() calls so far
    runs,              \* number of script runs so far
    trigger,           \* what caused the last script run
    halt,              \* where the last script run ended
    st_error,          \* the st.error element shown by the last run
    df,                \* script variable df (line 42)
    date_range,        \* value of the date_input widget (line 52), <<>> if not rendered
    kategori_pilihan,  \* value of the multiselect widget (line 61), <<>> if not rendered
    df_filtered,       \* line 68
    top_qty,           \* line 80
    top_rev,           \* line 86
    monthly_sales,     \* line 118
    top_customers,     \* line 130
    top_transactions,  \* line 131
    shipping_state,    \* line 159
    colors,            \* the color_discrete_sequence arguments of fig1, fig2, fig4, fig5
    session_state      \* Streamlit's stored values of the two filter widgets

vars == <<remote, cache, fetches, calls, runs, trigger, halt, st_error, df,
          date_range, kategori_pilihan, df_filtered, top_qty, top_rev,
          monthly_sales, top_customers, top_transactions, shipping_state, colors,
          session_state>>

---------------------------------------------------------------------------
\* Bounds of the model
MaxDay == 1          \* purchase days are 0..MaxDay
TicksPerDay == 2     \* instants per day; tick 0 is midnight
DaysPerMonth == 1    \* days per calendar month
MaxRows == 2         \* rows of a small table
MaxExtra == 1        \* a wide table has up to TopN + MaxExtra categories
MaxPattern == 1      \* quantity/revenue patterns of a wide table
MaxRuns == 3         \* script runs per session

\* Program constants
TopN == 10
NaN == -1
NaT == -1
NaTLabel == 9999

Min(a, b) == IF a <= b THEN a ELSE b

RECURSIVE SumSeq(_)
SumSeq(s) == IF s = <<>> THEN 0 ELSE Head(s) + SumSeq(Tail(s))

\* The elements of a finite set of integers in ascending order (sorted()).
RECURSIVE sorted(_)
sorted(S) ==
    IF S = {} THEN <<>>
    ELSE LET m == CHOOSE x \in S : \A y \in S : x <= y
         IN  <<m>> \o sorted(S \ {m})

---------------------------------------------------------------------------
\* load_data (lines 12-35)

\* Mutant: the list of line 18 without its last column
required_cols_short == <<"order_purchase_timestamp", "product_qty", "item_revenue",
                         "product_category_name_english_x", "product_category_name",
                         "customer_city", "customer_state">>

required_cols == <<"order_purchase_timestamp", "product_qty", "item_revenue",
                   "product_category_name_english_x", "product_category_name",
                   "customer_city", "customer_state", "delivery_days">>

\* Mutant: an unparseable string becomes the epoch instead of NaT
to_datetime_epoch(s) == IF Len(s) = 2 THEN s[1] * TicksPerDay + s[2] ELSE 0

\* pd.to_datetime(..., errors="coerce") on one CSV string
to_datetime(s) == IF Len(s) = 2 THEN s[1] * TicksPerDay + s[2] ELSE NaT

\* .dt.to_period("M").astype(str) on one Timestamp: NaT becomes the string "NaT"
to_period_M_str(t) == IF t = NaT THEN NaTLabel ELSE (t \div TicksPerDay) \div DaysPerMonth

\* a.fillna(b) on one pair of cells
fillna(a, b) == IF a = NaN THEN b ELSE a

NoError == [kind |-> "none", col |-> ""]
None == [tag |-> "None", rows |-> <<>>]
Unset == [tag |-> "unset", rows |-> <<>>]
DataFrame(rows) == [tag |-> "df", rows |-> rows]

\* for col in required_cols: if col not in df.columns (lines 19-22): the first
\* missing column in list order, 0 if none
FirstMissing(columns) ==
    LET miss == {i \in 1..Len(required_cols) : required_cols[i] \notin columns}
    IN  IF miss = {} THEN 0 ELSE CHOOSE i \in miss : \A j \in miss : i <= j

\* Lines 24-31 on one row
Derive(r, columns) ==
    LET t == to_datetime(r.order_purchase_timestamp)
    IN  [r EXCEPT !.order_purchase_timestamp = t,
                  !.product_qty = IF "product_qty" \notin columns THEN 1 ELSE @]
        @@ [category_final |-> fillna(r.product_category_name_english_x,
                                      r.product_category_name),
            order_month |-> to_period_M_str(t)]

\* The body of load_data on CSV content c: the returned value and the st.error
\* element it emits
load_data_body(c) ==
    IF c.status # "ok"
    THEN [value |-> None, error |-> [kind |-> "load_failed", col |-> ""]]
    ELSE LET m == FirstMissing(c.columns)
         IN  IF m # 0
             THEN [value |-> None,
                   error |-> [kind |-> "missing_column", col |-> required_cols[m]]]
             ELSE IF {"product_category_name_english_x", "product_category_name",
                      "order_purchase_timestamp"} \subseteq c.columns
             THEN [value |-> DataFrame([i \in 1..Len(c.rows) |-> Derive(c.rows[i], c.columns)]),
                   error |-> NoError]
             ELSE [value |-> None, error |-> [kind |-> "load_failed", col |-> ""]]

\* Mutant: load_data without its cache decorator
CacheNeverHit(entry) == FALSE

\* @st.cache_data (line 12): a stored entry is returned without running the body
Miss == [tag |-> "miss", value |-> Unset, error |-> NoError]
CacheHit(entry) == entry.tag # "miss"

---------------------------------------------------------------------------
\* Sidebar widgets (lines 50-65)

\* Series.min() / Series.max() of the timestamp column: NaT is skipped, and the
\* result is NaT when no value is left
ValidTimes(rows) == {rows[i].order_purchase_timestamp : i \in 1..Len(rows)} \ {NaT}
min_date(rows) ==
    IF ValidTimes(rows) = {} THEN NaT
    ELSE CHOOSE t \in ValidTimes(rows) : \A u \in ValidTimes(rows) : t <= u
max_date(rows) ==
    IF ValidTimes(rows) = {} THEN NaT
    ELSE CHOOSE t \in ValidTimes(rows) : \A u \in ValidTimes(rows) : t >= u

\* st.date_input keeps the date of a datetime value (datetime.date())
to_date(t) == IF t = NaT THEN NaT ELSE t \div TicksPerDay

\* pd.to_datetime(date): midnight of that date
date_to_datetime(d) == IF d = NaT THEN NaT ELSE d * TicksPerDay

\* The value date_input returns when the user has not touched it (line 54)
default_date_range(rows) == <<to_date(min_date(rows)), to_date(max_date(rows))>>

\* sorted(df["category_final"].dropna().unique()) (line 60)
kategori_list(rows) == sorted({rows[i].category_final : i \in 1..Len(rows)} \ {NaN})

Range(s) == {s[i] : i \in 1..Len(s)}

---------------------------------------------------------------------------
\* Filter (lines 68-72)

\* Series >= Timestamp and Series <= Timestamp, elementwise; a comparison with
\* NaT on either side is False
ge(t, bound) == t # NaT /\ bound # NaT /\ t >= bound
\* Mutant: an exclusive upper bound
le_strict(t, bound) == t # NaT /\ bound # NaT /\ t < bound
le(t, bound) == t # NaT /\ bound # NaT /\ t <= bound

\* Series.isin(values), elementwise; NaN is in no list of names
isin(c, values) == c # NaN /\ c \in values

\* The boolean mask of lines 69-71
mask(rows, dr, pilihan) ==
    [i \in 1..Len(rows) |->
        /\ ge(rows[i].order_purchase_timestamp, date_to_datetime(dr[1]))
        /\ le(rows[i].order_purchase_timestamp, date_to_datetime(dr[2]))
        /\ isin(rows[i].category_final, pilihan)]

\* df[mask]: the rows whose mask entry is True, in order
RECURSIVE take(_, _, _)
take(rows, m, i) ==
    IF i > Len(rows) THEN <<>>
    ELSE (IF m[i] THEN <<rows[i]>> ELSE <<>>) \o take(rows, m, i + 1)

filter(rows, dr, pilihan) == take(rows, mask(rows, dr, pilihan), 1)

---------------------------------------------------------------------------
\* Aggregations (lines 80-91, 118, 130-131, 159)

Keys(rows, k) == {rows[i][k] : i \in 1..Len(rows)} \ {NaN}

\* The values of column v in the rows of group g of column k, in row order
RECURSIVE group_values(_, _, _, _, _)
group_values(rows, k, g, v, i) ==
    IF i > Len(rows) THEN <<>>
    ELSE (IF rows[i][k] = g THEN <<rows[i][v]>> ELSE <<>>)
         \o group_values(rows, k, g, v, i + 1)

\* Mutant: the first value of each group instead of the group's sum
groupby_first(rows, k, v) ==
    LET ks == sorted(Keys(rows, k))
    IN  [j \in 1..Len(ks) |->
            [key |-> ks[j], val |-> Head(group_values(rows, k, ks[j], v, 1))]]

\* df.groupby(k)[v].sum(): one entry per non-null key, keys ascending
groupby_sum(rows, k, v) ==
    LET ks == sorted(Keys(rows, k))
    IN  [j \in 1..Len(ks) |->
            [key |-> ks[j], val |-> SumSeq(group_values(rows, k, ks[j], v, 1))]]

\* Series.sort_values(ascending=False): entries of equal value keep their order
RECURSIVE insert_desc(_, _)
insert_desc(s, e) ==
    IF s = <<>> THEN <<e>>
    ELSE IF Head(s).val >= e.val THEN <<Head(s)>> \o insert_desc(Tail(s), e)
    ELSE <<e>> \o s

RECURSIVE sort_values_desc(_)
sort_values_desc(s) ==
    IF s = <<>> THEN <<>>
    ELSE insert_desc(sort_values_desc(SubSeq(s, 1, Len(s) - 1)), s[Len(s)])

\* Mutant: one entry too many
head_one_more(s, n) == SubSeq(s, 1, Min(n + 1, Len(s)))

\* Series.head(n)
head(s, n) == SubSeq(s, 1, Min(n, Len(s)))

\* The non-null values of column k in order of first appearance
RECURSIVE unique(_, _, _)
unique(rows, k, i) ==
    IF i > Len(rows) THEN <<>>
    ELSE LET rest == unique(rows, k, i + 1)
             x == rows[i][k]
         IN  IF x = NaN THEN rest
             ELSE <<x>> \o SelectSeq(rest, LAMBDA y : y # x)

\* df[k].value_counts(): rows per non-null value, most frequent first
value_counts(rows, k) ==
    LET ks == unique(rows, k, 1)
    IN  sort_values_desc(
            [j \in 1..Len(ks) |->
                [key |-> ks[j],
                 val |-> Cardinality({i \in 1..Len(rows) : rows[i][k] = ks[j]})]])

\* df.groupby(k)[v].mean(): null values of v are skipped; the mean is kept as
\* the pair of its numerator and denominator (den = 0: the mean is NaN)
groupby_mean(rows, k, v) ==
    LET ks == sorted(Keys(rows, k))
    IN  [j \in 1..Len(ks) |->
            LET xs == SelectSeq(group_values(rows, k, ks[j], v, 1), LAMBDA x : x # NaN)
            IN  [key |-> ks[j], val |-> [num |-> SumSeq(xs), den |-> Len(xs)]]]

\* Series.idxmax() of a non-empty Series: the label of the first largest value
idxmax(s) ==
    LET i == CHOOSE a \in 1..Len(s) :
                 /\ \A b \in 1..Len(s) : s[a].val >= s[b].val
                 /\ \A b \in 1..(a - 1) : s[b].val < s[a].val
    IN  s[i].key

\* highlight_top (lines 93-94): idxmax is evaluated once per element, so an
\* empty Series gives the empty list
highlight_top(s) ==
    [i \in 1..Len(s) |-> IF s[i].key = idxmax(s) THEN "#F39C12" ELSE "#BDBDBD"]

\* highlight_top_city (lines 133-135): idxmax is evaluated first, and raises
\* ValueError on an empty Series
highlight_top_city_raises(s) == s = <<>>
highlight_top_city(s) ==
    [i \in 1..Len(s) |-> IF s[i].key = idxmax(s) THEN "#F39C12" ELSE "#BDBDBD"]

NoColors == [fig1 |-> <<>>, fig2 |-> <<>>, fig4 |-> <<>>, fig5 |-> <<>>]

\* Lines 68-174 for the widget values dr and pilihan: the script variables and
\* the place where the run ends
render(rows, dr, pilihan) ==
    LET f  == filter(rows, dr, pilihan)
        tq == head(sort_values_desc(groupby_sum(f, "category_final", "product_qty")), TopN)
        tr == head(sort_values_desc(groupby_sum(f, "category_final", "item_revenue")), TopN)
        ms == groupby_sum(f, "order_month", "item_revenue")
        tc == head(value_counts(f, "customer_city"), TopN)
        tt == head(value_counts(f, "customer_city"), TopN)
        raised == highlight_top_city_raises(tc)
    IN  [df_filtered |-> f, top_qty |-> tq, top_rev |-> tr, monthly_sales |-> ms,
         top_customers |-> tc, top_transactions |-> tt,
         shipping_state |-> IF raised THEN <<>>
                            ELSE groupby_mean(f, "customer_state", "delivery_days"),
         colors |-> [fig1 |-> highlight_top(tq), fig2 |-> highlight_top(tr),
                     fig4 |-> IF raised THEN <<>> ELSE highlight_top_city(tc),
                     fig5 |-> IF raised THEN <<>> ELSE highlight_top_city(tt)],
         halt |-> IF raised THEN "error_141" ELSE "done"]

\* The script variables of a run that ends before line 68
NotRendered(where) ==
    [df_filtered |-> <<>>, top_qty |-> <<>>, top_rev |-> <<>>, monthly_sales |-> <<>>,
     top_customers |-> <<>>, top_transactions |-> <<>>, shipping_state |-> <<>>,
     colors |-> NoColors, halt |-> where]

SetOutputs(o) ==
    /\ df_filtered' = o.df_filtered
    /\ top_qty' = o.top_qty
    /\ top_rev' = o.top_rev
    /\ monthly_sales' = o.monthly_sales
    /\ top_customers' = o.top_customers
    /\ top_transactions' = o.top_transactions
    /\ shipping_state' = o.shipping_state
    /\ colors' = o.colors
    /\ halt' = o.halt

---------------------------------------------------------------------------
\* The CSV contents the remote file is drawn from

AllCols == Range(required_cols) \cup {"order_id"}

TimeStrings == {<<d, k>> : d \in 0..MaxDay, k \in 0..(TicksPerDay - 1)} \cup {<<>>}

\* <<English name, localized name>> of a row's category
CategoryPairs == {<<1, 3>>, <<NaN, 2>>, <<NaN, NaN>>}

\* A row of a small table: the other cells follow the row's instant
SmallRow(ts, cp) ==
    [order_purchase_timestamp |-> ts,
     product_category_name_english_x |-> cp[1],
     product_category_name |-> cp[2],
     product_qty |-> IF ts = <<>> THEN 1 ELSE 1 + ts[2],
     item_revenue |-> IF ts = <<>> THEN 5 ELSE 10 * (1 + ts[1]),
     customer_city |-> IF ts = <<>> THEN NaN ELSE 1 + ts[1],
     customer_state |-> IF ts = <<>> THEN 1 ELSE 1 + ts[2],
     delivery_days |-> IF ts = <<>> \/ ts[2] = 0 THEN NaN ELSE 2 + ts[1]]

Pool == {SmallRow(ts, cp) : ts \in TimeStrings, cp \in CategoryPairs}

\* The position of a pool row in the listing order of the small tables
Code(r) ==
    LET ts == r.order_purchase_timestamp
        t == IF ts = <<>> THEN 0 ELSE 1 + ts[1] * TicksPerDay + ts[2]
    IN  3 * t + (IF r.product_category_name_english_x # NaN THEN 0
                       ELSE IF r.product_category_name # NaN THEN 1 ELSE 2)

SmallRowLists ==
    UNION {{s \in [1..n -> Pool] : \A i \in 1..(n - 1) : Code(s[i]) <= Code(s[i + 1])}
           : n \in 0..MaxRows}

\* A wide table: n categories and cities, category 1 on two rows
WideRows(n, p) ==
    [i \in 1..(n + 1) |->
        LET c == ((i - 1) % n) + 1
        IN  [order_purchase_timestamp |-> <<0, 0>>,
             product_category_name_english_x |-> c,
             product_category_name |-> NaN,
             product_qty |-> 1 + ((c * (p + 1)) % 3),
             item_revenue |-> 10 * (1 + ((c + p) % 4)),
             customer_city |-> IF i <= n THEN c ELSE 2,
             customer_state |-> 1 + (c % 2),
             delivery_days |-> IF c % 3 = 0 THEN NaN ELSE c]]

WideRowLists == {WideRows(n, p) : n \in (TopN - 1)..(TopN + MaxExtra), p \in 0..MaxPattern}

Table(columns, rows) == [status |-> "ok", columns |-> columns, rows |-> rows]

FullTables == {Table(AllCols, rows) : rows \in SmallRowLists \cup WideRowLists}

MissingTables ==
    {Table(AllCols \ M, <<SmallRow(<<0, 1>>, <<1, 3>>)>>) :
        M \in {X \in SUBSET Range(required_cols) : Cardinality(X) \in 1..2}}

Unreachable == [status |-> "unreachable", columns |-> {}, rows |-> <<>>]

Remotes == FullTables \cup MissingTables \cup {Unreachable}

---------------------------------------------------------------------------
\* One script run (lines 37-174)

NoWidgets == [date_range |-> <<>>, kategori |-> <<>>]

\* A run whose button (line 41) returns False: lines 46-47
RunWithoutButton ==
    /\ df' = Unset
    /\ st_error' = NoError
    /\ date_range' = <<>>
    /\ kategori_pilihan' = {}
    /\ session_state' = NoWidgets
    /\ SetOutputs(NotRendered("stop_47"))
    /\ UNCHANGED <<cache, fetches, calls>>

\* A run whose button returns True: lines 42-174.  widgets is the stored state
\* of the filter widgets at the start of the run; outcome is what date_input
\* does when min_date is NaT
RunWithButton(widgets, outcome) ==
    LET hit == CacheHit(cache)
        res == IF hit THEN [value |-> cache.value, error |-> cache.error]
               ELSE load_data_body(remote)
    IN  /\ calls' = calls + 1
        /\ fetches' = IF hit THEN fetches ELSE fetches + 1
        /\ cache' = IF hit THEN cache
                    ELSE [tag |-> "stored", value |-> res.value, error |-> res.error]
        /\ df' = res.value
        /\ st_error' = res.error
        /\ IF res.value.tag = "None"
           THEN /\ date_range' = <<>>
                /\ kategori_pilihan' = {}
                /\ session_state' = NoWidgets
                /\ SetOutputs(NotRendered("stop_44"))
           ELSE LET rows == res.value.rows
                    dr == IF widgets.date_range # <<>> THEN widgets.date_range[1]
                          ELSE default_date_range(rows)
                    kp == IF widgets.kategori # <<>> THEN widgets.kategori[1]
                          ELSE Range(kategori_list(rows))
                IN  IF min_date(rows) = NaT /\ outcome = "raise"
                    THEN /\ date_range' = <<>>
                         /\ kategori_pilihan' = {}
                         /\ session_state' = NoWidgets
                         /\ SetOutputs(NotRendered("error_52"))
                    ELSE /\ date_range' = dr
                         /\ kategori_pilihan' = kp
                         /\ session_state' = [date_range |-> <<dr>>, kategori |-> <<kp>>]
                         /\ SetOutputs(render(rows, dr, kp))

DateInputOutcomes == {"raise", "NaT"}

Days == 0..MaxDay
DateRanges == {<<lo, hi>> \in Days \X Days : lo <= hi}

\* The selections the multiselect is driven to: at most one category, or all
\* but at most one
Selections(options) ==
    {S \in SUBSET options : Cardinality(S) <= 1 \/ Cardinality(options \ S) <= 1}

Init ==
    /\ remote \in Remotes
    /\ cache = Miss
    /\ fetches = 0
    /\ calls = 0
    /\ runs = 0
    /\ trigger = "none"
    /\ halt = "init"
    /\ st_error = NoError
    /\ df = Unset
    /\ date_range = <<>>
    /\ kategori_pilihan = {}
    /\ df_filtered = <<>>
    /\ top_qty = <<>>
    /\ top_rev = <<>>
    /\ monthly_sales = <<>>
    /\ top_customers = <<>>
    /\ top_transactions = <<>>
    /\ shipping_state = <<>>
    /\ colors = NoColors
    /\ session_state = NoWidgets

\* The browser opens the page: the first run, no button pressed
OpenPage ==
    /\ halt = "init"
    /\ runs' = 1
    /\ trigger' = "open"
    /\ RunWithoutButton
    /\ UNCHANGED remote

\* The user presses "Load Data" (line 41)
PressLoadData ==
    /\ halt # "init"
    /\ runs < MaxRuns
    /\ runs' = runs + 1
    /\ trigger' = "load"
    /\ \E outcome \in DateInputOutcomes : RunWithButton(session_state, outcome)
    /\ UNCHANGED remote

\* The user picks another range in the date_input widget (line 52)
ChangeDateRange ==
    /\ session_state.date_range # <<>>
    /\ runs < MaxRuns
    /\ \E dr \in DateRanges :
          /\ <<dr>> # session_state.date_range
          /\ runs' = runs + 1
          /\ trigger' = "date_range"
          /\ RunWithoutButton
    /\ UNCHANGED remote

\* The user changes the selection of the multiselect widget (line 61)
ChangeKategori ==
    /\ session_state.kategori # <<>>
    /\ runs < MaxRuns
    /\ \E kp \in SUBSET Range(kategori_list(df.rows)) :
          /\ <<kp>> # session_state.kategori
          /\ runs' = runs + 1
          /\ trigger' = "kategori"
          /\ RunWithoutButton
    /\ UNCHANGED remote

Next == OpenPage \/ PressLoadData \/ ChangeDateRange \/ ChangeKategori

Spec == Init /\ [][Next]_vars

---------------------------------------------------------------------------
\* The pipeline of lines 50-174 on a loaded table, for any values the two
\* filter widgets can return

PipelineInit ==
    /\ remote \in FullTables
    /\ cache = [tag |-> "stored", value |-> load_data_body(remote).value,
                error |-> load_data_body(remote).error]
    /\ fetches = 1
    /\ calls = 1
    /\ runs = 1
    /\ trigger = "load"
    /\ halt = "loaded"
    /\ st_error = load_data_body(remote).error
    /\ df = load_data_body(remote).value
    /\ date_range = <<>>
    /\ kategori_pilihan = {}
    /\ df_filtered = <<>>
    /\ top_qty = <<>>
    /\ top_rev = <<>>
    /\ monthly_sales = <<>>
    /\ top_customers = <<>>
    /\ top_transactions = <<>>
    /\ shipping_state = <<>>
    /\ colors = NoColors
    /\ session_state = NoWidgets

\* Lines 68-174 with date_input returning dr and multiselect returning kp
Render(dr, kp) ==
    /\ halt = "loaded"
    /\ date_range' = dr
    /\ kategori_pilihan' = kp
    /\ session_state' = [date_range |-> <<dr>>, kategori |-> <<kp>>]
    /\ SetOutputs(render(df.rows, dr, kp))
    /\ UNCHANGED <<remote, cache, fetches, calls, runs, trigger, st_error, df>>

PipelineNext ==
    \E dr \in DateRanges \cup {<<NaT, NaT>>} :
        \E kp \in Selections(Range(kategori_list(df.rows))) : Render(dr, kp)

PipelineSpec == PipelineInit /\ [][PipelineNext]_vars

---------------------------------------------------------------------------
\* Properties

\* Line 68 was executed in the last run
Filtered == halt \in {"done", "error_141"}

Vals(s) == [i \in 1..Len(s) |-> s[i].val]
Column(rows, k) == [i \in 1..Len(rows) |-> rows[i][k]]
SortedDesc(s) == \A i \in 1..(Len(s) - 1) : s[i].val >= s[i + 1].val
Groups(rows, k) == {rows[i][k] : i \in 1..Len(rows)} \ {NaN}

EightColumns == {"order_purchase_timestamp", "product_qty", "item_revenue",
                 "product_category_name_english_x", "product_category_name",
                 "customer_city", "customer_state", "delivery_days"}
Absent == EightColumns \ remote.columns

Keep(r) ==
    /\ r.order_purchase_timestamp # NaT
    /\ date_range[1] # NaT
    /\ date_range[2] # NaT
    /\ date_range[1] * TicksPerDay <= r.order_purchase_timestamp
    /\ r.order_purchase_timestamp <= date_range[2] * TicksPerDay
    /\ r.category_final \in kategori_pilihan

\* C2: df_filtered holds exactly the rows of df whose timestamp lies in
\* [lower, upper] (the midnights of the two selected dates) and whose
\* category_final is selected, in their order; an empty selection gives an
\* empty df_filtered and the filter itself raises nothing.
C2_FilterExact ==
    (halt # "loaded") =>
        /\ Filtered
        /\ \A i \in 1..Len(df_filtered) :
              Keep(df_filtered[i]) /\ df_filtered[i] \in Range(df.rows)
        /\ \A r \in Range(df.rows) :
              Cardinality({i \in 1..Len(df_filtered) : df_filtered[i] = r})
                  = IF Keep(r) THEN Cardinality({i \in 1..Len(df.rows) : df.rows[i] = r})
                    ELSE 0
        /\ kategori_pilihan = {} => df_filtered = <<>>

C2_Witness ==
    /\ Filtered
    /\ Len(df.rows) = 2
    /\ Len(df_filtered) = 1
    /\ \E r \in Range(df.rows) :
          /\ r.category_final \in kategori_pilihan
          /\ r.order_purchase_timestamp > date_range[2] * TicksPerDay

\* C3: with the default date range (the dataset's own minimum and maximum
\* timestamp) and the default selection (every category) the filtered dataset
\* has as many rows as the loaded one.  Stated here for the tables in which
\* every row has a parseable timestamp and a category, where no row is null in
\* a filter column.
C3_DefaultFilterKeepsAllRows ==
    (/\ Filtered
     /\ date_range = default_date_range(df.rows)
     /\ kategori_pilihan = Range(kategori_list(df.rows))
     /\ \A r \in Range(df.rows) :
            r.order_purchase_timestamp # NaT /\ r.category_final # NaN)
        => Len(df_filtered) = Len(df.rows)

\* C4 (amended): once load_data has stored a result, every later call returns
\* that result without fetching the CSV, a call made by pressing Load Data
\* included; the CSV is fetched only by a call that finds the cache empty.
C4_CachedLoadNeverRefetches ==
    [][/\ cache.tag = "stored" => (cache' = cache /\ fetches' = fetches)
       /\ (cache.tag = "stored" /\ calls' = calls + 1) =>
              (df' = cache.value /\ st_error' = cache.error)
       /\ fetches' # fetches => (cache.tag = "miss" /\ trigger' = "load"
                                  /\ fetches' = fetches + 1)]_vars

C4_Witness ==
    /\ calls = 2
    /\ fetches = 1
    /\ trigger = "load"
    /\ df.tag = "df"
    /\ Len(df.rows) = 2

\* C4 (as claimed): pressing the Load Data button fetches the CSV again.
C4_ButtonBypassesCache ==
    [][(trigger' = "load" /\ runs' = runs + 1) => fetches' = fetches + 1]_vars

\* C5: a run triggered by changing the date range or the category selection
\* reaches the filter and the aggregations.
C5_FilterChangeRerenders ==
    trigger \in {"date_range", "kategori"} => Filtered

\* C6: when df_filtered is empty the run ends without error and every
\* aggregation and highlight list is empty.
C6_EmptyInputNoError ==
    (Filtered /\ df_filtered = <<>>) =>
        /\ halt = "done"
        /\ top_qty = <<>> /\ top_rev = <<>> /\ monthly_sales = <<>>
        /\ top_customers = <<>> /\ top_transactions = <<>> /\ shipping_state = <<>>
        /\ colors = NoColors

\* C7: each Top-N output is in non-increasing order of its metric and has
\* min(10, number of distinct groups of df_filtered) entries.
C7_TopNSortedAndSized ==
    Filtered =>
        /\ SortedDesc(top_qty) /\ SortedDesc(top_rev)
        /\ SortedDesc(top_customers) /\ SortedDesc(top_transactions)
        /\ Len(top_qty) = Min(TopN, Cardinality(Groups(df_filtered, "category_final")))
        /\ Len(top_rev) = Min(TopN, Cardinality(Groups(df_filtered, "category_final")))
        /\ Len(top_customers) = Min(TopN, Cardinality(Groups(df_filtered, "customer_city")))
        /\ Len(top_transactions) = Min(TopN, Cardinality(Groups(df_filtered, "customer_city")))

C7_Witness ==
    /\ Filtered
    /\ Cardinality(Groups(df_filtered, "category_final")) > TopN
    /\ Cardinality(Groups(df_filtered, "customer_city")) > TopN
    /\ Len(top_qty) = TopN
    /\ Len(top_customers) = TopN
    /\ top_qty[1].val > top_qty[TopN].val
    /\ top_customers[1].val > top_customers[TopN].val

\* C8 (as claimed): the values of top_qty, of top_rev and of monthly_sales each
\* add up to the total of their metric over df_filtered.
C8_OutputSumsConserved ==
    Filtered =>
        /\ SumSeq(Vals(top_qty)) = SumSeq(Column(df_filtered, "product_qty"))
        /\ SumSeq(Vals(top_rev)) = SumSeq(Column(df_filtered, "item_revenue"))
        /\ SumSeq(Vals(monthly_sales)) = SumSeq(Column(df_filtered, "item_revenue"))

\* C8 (amended): the values of monthly_sales add up to the total revenue of
\* df_filtered; those of top_qty and top_rev add up to the total of their
\* metric when df_filtered has at most 10 distinct categories.
C8_SumsConservedUpToTopN ==
    Filtered =>
        /\ SumSeq(Vals(monthly_sales)) = SumSeq(Column(df_filtered, "item_revenue"))
        /\ Cardinality(Groups(df_filtered, "category_final")) <= TopN =>
              /\ SumSeq(Vals(top_qty)) = SumSeq(Column(df_filtered, "product_qty"))
              /\ SumSeq(Vals(top_rev)) = SumSeq(Column(df_filtered, "item_revenue"))

C8_Witness ==
    /\ Filtered
    /\ Cardinality(Groups(df_filtered, "category_final")) = TopN
    /\ Len(df_filtered) > TopN
    /\ SumSeq(Vals(top_qty)) > 0

Unparseable(str) == Len(str) # 2
HasNullTime(rows) == \E i \in 1..Len(rows) : rows[i].order_purchase_timestamp = NaT

\* C9 (as claimed): a row with an unparseable timestamp is kept by load_data
\* with a null timestamp and a null order_month, and no date range with a
\* non-null lower bound lets it into df_filtered.
C9_UnparseableRowNullMonth ==
    /\ Len(df.rows) = Len(remote.rows)
    /\ \A i \in 1..Len(remote.rows) :
          Unparseable(remote.rows[i].order_purchase_timestamp) =>
              /\ df.rows[i].order_purchase_timestamp = NaT
              /\ df.rows[i].order_month = NaN
    /\ (Filtered /\ date_range[1] # NaT) => ~HasNullTime(df_filtered)

\* C9 (amended): such a row is kept with a null timestamp and with order_month
\* equal to the string "NaT", which is not null, and no date range with a
\* non-null lower bound lets it into df_filtered.
C9_UnparseableRowNaTLabel ==
    /\ Len(df.rows) = Len(remote.rows)
    /\ \A i \in 1..Len(remote.rows) :
          Unparseable(remote.rows[i].order_purchase_timestamp) =>
              /\ df.rows[i].order_purchase_timestamp = NaT
              /\ df.rows[i].order_month = NaTLabel
              /\ df.rows[i].order_month # NaN
    /\ (Filtered /\ date_range[1] # NaT) => ~HasNullTime(df_filtered)

C9_Witness ==
    /\ Filtered
    /\ date_range[1] # NaT
    /\ HasNullTime(df.rows)
    /\ \E i \in 1..Len(df.rows) :
          /\ df.rows[i].order_purchase_timestamp = NaT
          /\ df.rows[i].category_final \in kategori_pilihan
    /\ df_filtered # <<>>

\* C10: the cache holds a result only after a successful load.
C10_FailedLoadNotCached ==
    cache.tag = "stored" => cache.value.tag = "df"

====
